---- MODULE Spec2Model ----
(***************************************************************************)
(* Wallet engine of KalpeSanteBack (apps/wallet): wallets, transactions,   *)
(* the ledger, and the callers that run credit / debit / execute / cancel  *)
(* / reverse / transfer / deposit / withdraw concurrently against one      *)
(* database.                                                               *)
(*                                                                         *)
(* The database is modelled at READ COMMITTED with row locks: a caller's   *)
(* writes stay in its own pending set (pbal, ptxn, pled) until the         *)
(* outermost transaction.atomic block commits; an exception leaving that   *)
(* block discards them.  select_for_update and UPDATE take the row lock    *)
(* (wlock, tlock) and keep it until commit or rollback.  A caller works on *)
(* in-memory copies (mem) of the rows it loaded, which go stale when       *)
(* another caller commits.                                                 *)
(***************************************************************************)
EXTENDS Integers, Sequences, FiniteSets, TLC

\* ---------------------------------------------------------------- bounds
MaxTxn == 6
MaxCalls == 2

W == {"A", "B"}
Procs == {"p1", "p2", "p3"}
\* The callers that run concurrently in Spec; the third one only joins the race.
Callers == {"p1", "p2"}
Amounts == {1000}
Fees == {100}
InitBalance == [w \in W |-> IF w = "A" THEN 1000 ELSE 0]
NoWallet == "none"
NoProc == "none"
TxnIds == 1..MaxTxn

\* ------------------------------------------------------ program constants
DefaultDailyLimit == 500000
DefaultMonthlyLimit == 5000000

PENDING == "PENDING"
PROCESSING == "PROCESSING"
COMPLETED == "COMPLETED"
FAILED == "FAILED"
CANCELLED == "CANCELLED"
REVERSED == "REVERSED"

TRANSFER == "TRANSFER"
DEPOSIT == "DEPOSIT"
WITHDRAWAL == "WITHDRAWAL"
PAYMENT == "PAYMENT"
REFUND == "REFUND"
SPONSORSHIP == "SPONSORSHIP"
HEALTHCARE_PAYMENT == "HEALTHCARE_PAYMENT"
PHARMACY_PAYMENT == "PHARMACY_PAYMENT"

TransactionException == "TransactionException"
InsufficientFundsException == "InsufficientFundsException"
FraudDetectedException == "FraudDetectedException"
\* What the database raises in the caller it picks to break a deadlock.
OperationalError == "OperationalError"

VARIABLES
  wallets,   \* committed Wallet rows
  txns,      \* committed Transaction rows, a function on the ids in use
  ledger,    \* committed WalletLedger rows, in insertion order
  rules,     \* the active FraudRule rows
  wlock,     \* wallet row -> the caller holding its row lock
  tlock,     \* transaction row -> the caller holding its row lock
  pc,        \* caller -> where it is in its call
  call,      \* caller -> the call it is making
  mem,       \* caller -> its in-memory model instances
  pbal,      \* caller -> wallet balances it has written, not yet committed
  ptxn,      \* caller -> transaction rows it has written, not yet committed
  pled,      \* caller -> ledger rows it has inserted, not yet committed
  res,       \* caller -> how its last call ended, and at which step
  delta,     \* caller -> per wallet, net amount of the credit/debit calls that returned in its open transaction
  expected,  \* per wallet, initial balance plus net amount of all committed credit/debit calls
  ncalls     \* calls started so far

vars == <<wallets, txns, ledger, rules, wlock, tlock, pc, call, mem, pbal, ptxn,
          pled, res, delta, expected, ncalls>>

EmptyFn == [x \in {} |-> 0]
ZeroDelta == [w \in W |-> 0]

NoObj == [balance |-> 0, is_active |-> FALSE, is_locked |-> FALSE,
          daily_limit |-> 0, monthly_limit |-> 0, is_new |-> FALSE]
\* The running result of reconcile_daily_transactions(): the count, the rows
\* still to visit, and the tallies.
NoBatch == [total |-> 0, todo |-> {}, reconciled |-> 0, failed |-> 0, errors |-> <<>>]
NoMem == [status |-> "", is_reconciled |-> FALSE, sw |-> NoObj, rw |-> NoObj,
          batch |-> NoBatch]
NoCall == [op |-> "idle", s |-> NoWallet, r |-> NoWallet, amt |-> 0, fee |-> 0,
           t |-> 0, cur |-> 0]
NoRes == [outcome |-> "none", reason |-> "", at |-> "", t |-> 0]

\* ------------------------------------------------------------ the database
\* What caller p reads: committed rows overlaid with its own pending writes.
BalOf(p, w) == IF w \in DOMAIN pbal[p] THEN pbal[p][w] ELSE wallets[w].balance

RowsOf(p) == ptxn[p] @@ txns

\* Wallet.objects.get / lazy load of a related wallet by caller p.
LoadWallet(p, w) ==
  IF w = NoWallet THEN NoObj ELSE [wallets[w] EXCEPT !.balance = BalOf(p, w)]

UsedIds == DOMAIN txns \cup UNION {DOMAIN ptxn[p] : p \in Procs}

FreshId == CHOOSE i \in TxnIds \ UsedIds : \A j \in TxnIds \ UsedIds : i <= j

RECURSIVE SumAmount(_, _)
SumAmount(rows, ids) ==
  IF ids = {} THEN 0
  ELSE LET i == CHOOSE x \in ids : TRUE
       IN rows[i].amount + SumAmount(rows, ids \ {i})

Release(lk, p) == [x \in DOMAIN lk |-> IF lk[x] = p THEN NoProc ELSE lk[x]]

\* ------------------------------------------------------------------ Wallet
\* The checks credit() and debit() make on the in-memory instance.
WalletOpCheck(obj, amount) ==
  IF amount <= 0 THEN "Amount must be positive"
  ELSE IF ~obj.is_active THEN "Wallet is not active"
  ELSE IF obj.is_locked THEN "Wallet is locked"
  ELSE "ok"

\* The balance credit() and debit() compute from: the row read by
\* select_for_update().get(pk=self.pk).
StaleBalance(p, w, obj) == obj.balance
LockedBalance(p, w, obj) == BalOf(p, w)

\* debit(): the funds check on the locked row.
NoFundsCheck(balance, amount) == FALSE
InsufficientFunds(balance, amount) == balance < amount

get_daily_spent(p, w) ==
  LET rows == RowsOf(p)
  IN SumAmount(rows, {i \in DOMAIN rows :
                        rows[i].sender_wallet = w /\ rows[i].status = COMPLETED})

\* All modelled transactions are created in the current calendar month.
get_monthly_spent(p, w) == get_daily_spent(p, w)

can_send(p, w, obj, amount) ==
  /\ obj.is_active /\ ~obj.is_locked
  /\ ~(obj.balance < amount)
  /\ ~(get_daily_spent(p, w) + amount > obj.daily_limit)
  /\ ~(get_monthly_spent(p, w) + amount > obj.monthly_limit)

\* -------------------------------------------------- commit and rollback
ResetCaller(p, outcome, reason) ==
  /\ pc' = [pc EXCEPT ![p] = "idle"]
  /\ call' = [call EXCEPT ![p] = NoCall]
  /\ mem' = [mem EXCEPT ![p] = NoMem]
  /\ pbal' = [pbal EXCEPT ![p] = EmptyFn]
  /\ ptxn' = [ptxn EXCEPT ![p] = EmptyFn]
  /\ pled' = [pled EXCEPT ![p] = <<>>]
  /\ delta' = [delta EXCEPT ![p] = ZeroDelta]
  /\ wlock' = Release(wlock, p)
  /\ tlock' = Release(tlock, p)
  /\ res' = [res EXCEPT ![p] = [outcome |-> outcome, reason |-> reason, at |-> pc[p],
                                  t |-> call[p].cur]]

\* The wallet rows after the outermost atomic block is left by an exception.
KeepPendingBalances(p, nb) ==
  [w \in W |-> IF w \in DOMAIN nb THEN [wallets[w] EXCEPT !.balance = nb[w]]
               ELSE wallets[w]]
RolledBackWallets(p, nb) == wallets

\* A commit that keeps only the new ledger rows, in place of AppendLedger.
ReplaceLedger(l, nl) == nl

\* WalletLedger.objects.create(...): rows are only ever inserted.
AppendLedger(l, nl) == l \o nl

\* The outermost atomic block ends normally: caller p's writes nb (balances),
\* nt (transaction rows), nl (ledger rows) become visible, its locks go.
CommitWith(p, nb, nt, nl, nd) ==
  /\ wallets' = [w \in W |-> IF w \in DOMAIN nb
                             THEN [wallets[w] EXCEPT !.balance = nb[w]]
                             ELSE wallets[w]]
  /\ txns' = nt @@ txns
  /\ ledger' = AppendLedger(ledger, nl)
  /\ expected' = [w \in W |-> expected[w] + nd[w]]
  /\ ResetCaller(p, "ok", "")
  /\ UNCHANGED <<rules, ncalls>>

\* The exception that reaches the caller: transfer / deposit / withdraw wrap
\* whatever execute() raised in a TransactionException.
Surface(op, exc) ==
  IF op \in {"transfer", "deposit", "withdraw"} /\ exc # FraudDetectedException
  THEN TransactionException ELSE exc

\* An exception leaves the outermost atomic block: everything p wrote in it,
\* the FAILED status included, is rolled back.
AbortWith(p, exc, reason) ==
  /\ wallets' = RolledBackWallets(p, pbal[p])
  /\ UNCHANGED <<txns, ledger, expected, rules, ncalls>>
  /\ ResetCaller(p, Surface(call[p].op, exc), reason)

\* The stored state before any call: wallets with balances bal and daily
\* limits daily, the active fraud rules rs, no transaction.
InitFrom(bal, rs, daily) ==
  /\ wallets = [w \in W |-> [balance |-> bal[w], is_active |-> TRUE,
                             is_locked |-> FALSE,
                             daily_limit |-> daily[w],
                             monthly_limit |-> DefaultMonthlyLimit,
                             is_new |-> FALSE]]
  /\ txns = EmptyFn
  /\ ledger = <<>>
  /\ rules = rs
  /\ wlock = [w \in W |-> NoProc]
  /\ tlock = [t \in TxnIds |-> NoProc]
  /\ pc = [p \in Procs |-> "idle"]
  /\ call = [p \in Procs |-> NoCall]
  /\ mem = [p \in Procs |-> NoMem]
  /\ pbal = [p \in Procs |-> EmptyFn]
  /\ ptxn = [p \in Procs |-> EmptyFn]
  /\ pled = [p \in Procs |-> <<>>]
  /\ res = [p \in Procs |-> NoRes]
  /\ delta = [p \in Procs |-> ZeroDelta]
  /\ expected = bal
  /\ ncalls = 0

InitWith(bal) == InitFrom(bal, {}, [w \in W |-> DefaultDailyLimit])

Init == InitWith(InitBalance)

\* ------------------------------------------------- Wallet.credit / debit
\* A caller loads a wallet and later calls credit() or debit() on the instance.
BeginWalletOp(p) ==
  /\ pc[p] = "idle" /\ ncalls < MaxCalls
  /\ \E op \in {"credit", "debit"}, w \in W, a \in Amounts :
       /\ call' = [call EXCEPT ![p] = [NoCall EXCEPT !.op = op, !.s = w, !.amt = a]]
       /\ mem' = [mem EXCEPT ![p] = [NoMem EXCEPT !.sw = LoadWallet(p, w)]]
  /\ pc' = [pc EXCEPT ![p] = "call"]
  /\ res' = [res EXCEPT ![p] = NoRes]
  /\ ncalls' = ncalls + 1
  /\ UNCHANGED <<wallets, txns, ledger, rules, wlock, tlock, pbal, ptxn, pled,
                 delta, expected>>

WalletCredit(p) ==
  /\ pc[p] = "call" /\ call[p].op = "credit"
  /\ LET w == call[p].s
         a == call[p].amt
         chk == WalletOpCheck(mem[p].sw, a)
     IN IF chk # "ok" THEN AbortWith(p, TransactionException, chk)
        ELSE /\ wlock[w] \in {NoProc, p}
             /\ CommitWith(p, (w :> (LockedBalance(p, w, mem[p].sw) + a)), EmptyFn,
                           <<>>, [ZeroDelta EXCEPT ![w] = a])

WalletDebit(p) ==
  /\ pc[p] = "call" /\ call[p].op = "debit"
  /\ LET w == call[p].s
         a == call[p].amt
         chk == WalletOpCheck(mem[p].sw, a)
     IN IF chk # "ok" THEN AbortWith(p, TransactionException, chk)
        ELSE /\ wlock[w] \in {NoProc, p}
             /\ LET bal == LockedBalance(p, w, mem[p].sw)
                IN IF InsufficientFunds(bal, a)
                   THEN AbortWith(p, InsufficientFundsException, "Insufficient funds")
                   ELSE CommitWith(p, (w :> (bal - a)), EmptyFn, <<>>,
                                   [ZeroDelta EXCEPT ![w] = -a])

\* ------------------------------------- Wallet.lock / unlock, soft_delete / restore
SetWalletFlag(w, locked, active) ==
  /\ ncalls < MaxCalls
  /\ wlock[w] = NoProc
  /\ wallets' = [wallets EXCEPT ![w].is_locked = locked, ![w].is_active = active]
  /\ ncalls' = ncalls + 1
  /\ UNCHANGED <<txns, ledger, rules, wlock, tlock, pc, call, mem, pbal, ptxn,
                 pled, res, delta, expected>>

lock(w) == SetWalletFlag(w, TRUE, wallets[w].is_active)

unlock(w) == /\ wallets[w].is_locked
             /\ SetWalletFlag(w, FALSE, wallets[w].is_active)

soft_delete(w) == /\ wallets[w].is_active
                  /\ SetWalletFlag(w, wallets[w].is_locked, FALSE)

restore(w) == /\ ~wallets[w].is_active
              /\ SetWalletFlag(w, wallets[w].is_locked, TRUE)

\* ------------------------------------------------------------ Transaction
NewRow(type, s, r, amount, fee, original) ==
  [transaction_type |-> type, status |-> PENDING, sender_wallet |-> s,
   receiver_wallet |-> r, amount |-> amount, fee |-> fee, failure_reason |-> "",
   fraud_score |-> 0,
   \* signals.check_high_value_transaction
   is_flagged |-> (amount >= 1000000),
   is_reconciled |-> FALSE, original |-> original]

\* What Transaction.objects.create(...) and the managers' create_* are called with.
Templates ==
  {[type |-> TRANSFER, s |-> "A", r |-> "B", fee |-> 0],
   [type |-> TRANSFER, s |-> "B", r |-> "A", fee |-> 0],
   [type |-> TRANSFER, s |-> "A", r |-> "A", fee |-> 0],
   [type |-> TRANSFER, s |-> "A", r |-> NoWallet, fee |-> 0],
   [type |-> SPONSORSHIP, s |-> "A", r |-> "B", fee |-> 0],
   [type |-> DEPOSIT, s |-> NoWallet, r |-> "A", fee |-> 0],
   [type |-> WITHDRAWAL, s |-> "A", r |-> NoWallet, fee |-> 100],
   [type |-> PAYMENT, s |-> "A", r |-> "B", fee |-> 100],
   [type |-> PHARMACY_PAYMENT, s |-> "A", r |-> "B", fee |-> 100],
   [type |-> HEALTHCARE_PAYMENT, s |-> "A", r |-> NoWallet, fee |-> 100],
   [type |-> REFUND, s |-> "B", r |-> "A", fee |-> 0]}

\* A caller creates a PENDING transaction (committed at once) and keeps the
\* instance to call execute() or cancel() on it.
CreateTxn(p) ==
  /\ pc[p] = "idle" /\ ncalls < MaxCalls
  /\ TxnIds \ UsedIds # {}
  /\ \E tpl \in Templates, a \in Amounts, op \in {"execute", "cancel"} :
       /\ txns' = (FreshId :> NewRow(tpl.type, tpl.s, tpl.r, a, tpl.fee, 0)) @@ txns
       /\ call' = [call EXCEPT ![p] = [NoCall EXCEPT !.op = op, !.t = FreshId,
                                                     !.cur = FreshId]]
  /\ mem' = [mem EXCEPT ![p] = [NoMem EXCEPT !.status = PENDING]]
  /\ pc' = [pc EXCEPT ![p] = "call"]
  /\ res' = [res EXCEPT ![p] = NoRes]
  /\ ncalls' = ncalls + 1
  /\ UNCHANGED <<wallets, ledger, rules, wlock, tlock, pbal, ptxn, pled, delta,
                 expected>>

PaymentTypes == {PAYMENT, HEALTHCARE_PAYMENT, PHARMACY_PAYMENT}

\* A debit that leaves the fee out, in place of DebitAmount.
DebitWithoutFee(row) == row.amount

\* The amount execute() debits from the sender and credits to the receiver.
DebitAmount(row) ==
  IF row.transaction_type \in PaymentTypes \cup {WITHDRAWAL}
  THEN row.amount + row.fee ELSE row.amount

\* A credit of twice the amount, in place of CreditAmount.
DoubleCredit(row) == row.amount + row.amount

CreditAmount(row) == row.amount

HasDebit(row) == row.transaction_type # DEPOSIT

\* A refund that debits without crediting, in place of HasCredit.
NoRefundCredit(row) == row.transaction_type \notin {WITHDRAWAL, REFUND}

HasCredit(row) == row.transaction_type # WITHDRAWAL

\* The checks of _execute_<type> before the first wallet call; sw and rw are
\* the in-memory sender and receiver wallets.
DispatchCheck(p, row, sw, rw) ==
  LET ty == row.transaction_type
      s == row.sender_wallet
      r == row.receiver_wallet
  IN IF ty \in {TRANSFER, SPONSORSHIP} THEN
          IF s = NoWallet \/ r = NoWallet THEN "wallets required"
          ELSE IF s = r THEN "same wallet"
          ELSE IF ~can_send(p, s, sw, row.amount) THEN "exceeds wallet limits"
          ELSE "ok"
     ELSE IF ty = DEPOSIT THEN
          IF r = NoWallet THEN "wallets required" ELSE "ok"
     ELSE IF ty = WITHDRAWAL THEN
          IF s = NoWallet THEN "wallets required" ELSE "ok"
     ELSE IF ty \in PaymentTypes THEN
          IF s = NoWallet \/ r = NoWallet THEN "wallets required"
          ELSE IF ~can_send(p, s, sw, row.amount + row.fee) THEN "exceeds wallet limits"
          ELSE "ok"
     ELSE IF ty = REFUND THEN
          IF s = NoWallet \/ r = NoWallet THEN "wallets required" ELSE "ok"
     ELSE "unknown type"

\* A caller loads a transaction and later calls execute(), cancel() or
\* reverse() on the instance, or passes it to reconcile_transaction().
BeginTxnOp(p) ==
  /\ pc[p] = "idle" /\ ncalls < MaxCalls
  /\ \E op \in {"execute", "cancel", "reverse", "reconcile"}, t \in DOMAIN txns :
       /\ call' = [call EXCEPT ![p] = [NoCall EXCEPT !.op = op, !.t = t, !.cur = t]]
       /\ mem' = [mem EXCEPT ![p] = [NoMem EXCEPT !.status = txns[t].status,
                                                  !.is_reconciled = txns[t].is_reconciled]]
  /\ pc' = [pc EXCEPT ![p] = "call"]
  /\ res' = [res EXCEPT ![p] = NoRes]
  /\ ncalls' = ncalls + 1
  /\ UNCHANGED <<wallets, txns, ledger, rules, wlock, tlock, pbal, ptxn, pled,
                 delta, expected>>

\* A step of a call that is not its last: the caller's pending writes grow.
Continue(p, label, nb, nt, nd, sw, rw, wl) ==
  /\ pc' = [pc EXCEPT ![p] = label]
  /\ pbal' = [pbal EXCEPT ![p] = nb]
  /\ ptxn' = [ptxn EXCEPT ![p] = nt]
  /\ delta' = [delta EXCEPT ![p] = nd]
  /\ mem' = [mem EXCEPT ![p].sw = sw, ![p].rw = rw]
  /\ wlock' = wl
  /\ UNCHANGED <<wallets, txns, ledger, rules, pled, res, expected, ncalls, call>>

\* execute(): status check, save PROCESSING, then the checks of the type's
\* _execute_ method.  The related wallets are loaded on first access.
ExecStart(p) ==
  /\ pc[p] = "call" /\ call[p].op = "execute"
  /\ LET t == call[p].t IN
     IF mem[p].status # PENDING
     THEN AbortWith(p, TransactionException, "not pending")
     ELSE /\ tlock[t] \in {NoProc, p}
          /\ LET row == [txns[t] EXCEPT !.status = PROCESSING]
                 sw == LoadWallet(p, row.sender_wallet)
                 rw == LoadWallet(p, row.receiver_wallet)
                 chk == DispatchCheck(p, row, sw, rw)
             IN IF chk # "ok" THEN AbortWith(p, TransactionException, chk)
                ELSE /\ Continue(p, IF HasDebit(row) THEN "debit" ELSE "credit",
                                 pbal[p], (t :> row) @@ ptxn[p], delta[p], sw, rw, wlock)
                     /\ tlock' = [tlock EXCEPT ![t] = p]

\* A DEBIT entry that leaves the fee out, in place of LedgerDebitAmount.
LedgerDebitNoFee(row) == row.amount

\* _create_ledger_entries(transaction), from the in-memory wallets.
LedgerDebitAmount(row) == row.amount + row.fee

\* A CREDIT entry carrying the fee, in place of LedgerCreditAmount.
LedgerCreditOfFee(row) == row.fee

LedgerCreditAmount(row) == row.amount

LedgerEntries(t, row, sw, rw) ==
  (IF row.sender_wallet # NoWallet
   THEN <<[wallet |-> row.sender_wallet, transaction |-> t, entry_type |-> "DEBIT",
           amount |-> LedgerDebitAmount(row),
           balance_before |-> sw.balance + (row.amount + row.fee),
           balance_after |-> sw.balance]>>
   ELSE <<>>)
  \o
  (IF row.receiver_wallet # NoWallet
   THEN <<[wallet |-> row.receiver_wallet, transaction |-> t, entry_type |-> "CREDIT",
           amount |-> LedgerCreditAmount(row),
           balance_before |-> rw.balance - row.amount,
           balance_after |-> rw.balance]>>
   ELSE <<>>)

\* The wallet calls of the type's _execute_ method are done: execute() saves
\* COMPLETED and returns to whoever called it.
Completed(p, nb, nd, sw, rw, wl) ==
  LET t == call[p].cur
      row == [ptxn[p][t] EXCEPT !.status = COMPLETED]
      nt == (t :> row) @@ ptxn[p]
  IN IF call[p].op = "execute" THEN CommitWith(p, nb, nt, <<>>, nd)
     ELSE IF call[p].op = "reverse"
          THEN /\ Continue(p, "mark", nb, nt, nd, sw, rw, wl)
               /\ UNCHANGED tlock
     ELSE CommitWith(p, nb, nt, LedgerEntries(t, row, sw, rw), nd)

\* self.sender_wallet.debit(...) inside execute().
StepDebit(p) ==
  /\ pc[p] = "debit"
  /\ LET row == ptxn[p][call[p].cur]
         w == row.sender_wallet
         a == DebitAmount(row)
         chk == WalletOpCheck(mem[p].sw, a)
     IN IF chk # "ok" THEN AbortWith(p, TransactionException, chk)
        ELSE /\ wlock[w] \in {NoProc, p}
             /\ LET bal == LockedBalance(p, w, mem[p].sw)
                    nb == (w :> (bal - a)) @@ pbal[p]
                    nd == [delta[p] EXCEPT ![w] = @ - a]
                    sw == [wallets[w] EXCEPT !.balance = bal - a]
                    wl == [wlock EXCEPT ![w] = p]
                IN IF InsufficientFunds(bal, a)
                   THEN AbortWith(p, InsufficientFundsException, "Insufficient funds")
                   ELSE IF HasCredit(row)
                        THEN /\ Continue(p, "credit", nb, ptxn[p], nd, sw, mem[p].rw, wl)
                             /\ UNCHANGED tlock
                        ELSE Completed(p, nb, nd, sw, mem[p].rw, wl)

\* self.receiver_wallet.credit(...) inside execute().
StepCredit(p) ==
  /\ pc[p] = "credit"
  /\ LET row == ptxn[p][call[p].cur]
         w == row.receiver_wallet
         a == CreditAmount(row)
         chk == WalletOpCheck(mem[p].rw, a)
     IN IF chk # "ok" THEN AbortWith(p, TransactionException, chk)
        ELSE /\ wlock[w] \in {NoProc, p}
             /\ LET bal == LockedBalance(p, w, mem[p].rw)
                    nb == (w :> (bal + a)) @@ pbal[p]
                    nd == [delta[p] EXCEPT ![w] = @ + a]
                    rw == [wallets[w] EXCEPT !.balance = bal + a]
                    wl == [wlock EXCEPT ![w] = p]
                IN Completed(p, nb, nd, mem[p].sw, rw, wl)

\* cancel(): the status check is on the in-memory instance.
CancelAllowed(status) == status \in {PENDING, PROCESSING}

Cancel(p) ==
  /\ pc[p] = "call" /\ call[p].op = "cancel"
  /\ LET t == call[p].t IN
     IF ~CancelAllowed(mem[p].status)
     THEN AbortWith(p, TransactionException, "not cancellable")
     ELSE /\ tlock[t] \in {NoProc, p}
          /\ CommitWith(p, EmptyFn,
                        (t :> [txns[t] EXCEPT !.status = CANCELLED,
                                              !.failure_reason = "cancelled"]),
                        <<>>, ZeroDelta)

\* The transaction reverse() creates for the original orig with id t.
ReversalRow(orig, t) ==
  NewRow(REFUND, orig.receiver_wallet, orig.sender_wallet, orig.amount, 0, t)

\* reverse(): status check on the in-memory instance, create the REFUND with
\* the wallets swapped, and start its execute().
ReverseStart(p) ==
  /\ pc[p] = "call" /\ call[p].op = "reverse"
  /\ LET t == call[p].t IN
     IF mem[p].status # COMPLETED
     THEN AbortWith(p, TransactionException, "not completed")
     ELSE /\ TxnIds \ UsedIds # {}
          /\ LET id == FreshId
                 row == [ReversalRow(txns[t], t) EXCEPT !.status = PROCESSING]
                 sw == LoadWallet(p, row.sender_wallet)
                 rw == LoadWallet(p, row.receiver_wallet)
                 chk == DispatchCheck(p, row, sw, rw)
             IN IF chk # "ok"
                THEN AbortWith(p, TransactionException, chk)
                ELSE /\ pc' = [pc EXCEPT ![p] = "debit"]
                     /\ call' = [call EXCEPT ![p].cur = id]
                     /\ ptxn' = [ptxn EXCEPT ![p] = (id :> row) @@ ptxn[p]]
                     /\ mem' = [mem EXCEPT ![p].sw = sw, ![p].rw = rw]
                     /\ UNCHANGED <<wallets, txns, ledger, rules, wlock, tlock, pbal,
                                    pled, res, delta, expected, ncalls>>

\* reverse(): the REFUND is executed; mark the original REVERSED and return.
ReverseMark(p) ==
  /\ pc[p] = "mark"
  /\ LET t == call[p].t IN
     /\ tlock[t] \in {NoProc, p}
     /\ CommitWith(p, pbal[p], (t :> [txns[t] EXCEPT !.status = REVERSED]) @@ ptxn[p],
                   <<>>, delta[p])


\* --------------------------------------------------- ReconciliationService
\* A call returns a value without having written anything.
ReturnWith(p, value, reason) ==
  /\ UNCHANGED <<wallets, txns, ledger, expected, rules, ncalls>>
  /\ ResetCaller(p, value, reason)

RECURSIVE SumLedger(_)
SumLedger(l) == IF l = <<>> THEN 0 ELSE Head(l).amount + SumLedger(Tail(l))

\* _verify_transaction(): the transaction has ledger entries and, for a
\* TRANSFER, Sum('amount') over them is within 0.01 of zero.
verify_transaction(p, t) ==
  LET ledger_entries == SelectSeq(ledger \o pled[p], LAMBDA e : e.transaction = t)
      total_changes == SumLedger(ledger_entries)
  IN /\ ledger_entries # <<>>
     /\ ~(/\ RowsOf(p)[t].transaction_type = TRANSFER
          /\ (total_changes > 0 \/ total_changes < 0))

\* A status check that lets every transaction through, in place of ReconcileAllowed.
ReconcileAnyStatus(status) == TRUE

\* reconcile_transaction(): the status check on the instance it is given.
ReconcileAllowed(status) == status = COMPLETED

\* reconcile_transaction(transaction, reconciled_by), with Transaction.reconcile().
Reconcile(p) ==
  /\ pc[p] = "call" /\ call[p].op = "reconcile"
  /\ LET t == call[p].t IN
     IF ~ReconcileAllowed(mem[p].status) THEN ReturnWith(p, "false", "not completed")
     ELSE IF mem[p].is_reconciled THEN ReturnWith(p, "true", "already reconciled")
     ELSE IF ~verify_transaction(p, t) THEN ReturnWith(p, "false", "verification failed")
     ELSE /\ tlock[t] \in {NoProc, p}
          /\ txns' = [txns EXCEPT ![t].is_reconciled = TRUE]
          /\ UNCHANGED <<wallets, ledger, expected, rules, ncalls>>
          /\ ResetCaller(p, "true", "")

\* Transaction.reconcile(reconciled_by) on a COMPLETED transaction loaded for
\* the purpose.
reconcile(t) ==
  /\ t \in DOMAIN txns /\ txns[t].status = COMPLETED /\ ~txns[t].is_reconciled
  /\ tlock[t] = NoProc
  /\ txns' = [txns EXCEPT ![t].is_reconciled = TRUE]
  /\ UNCHANGED <<wallets, ledger, rules, wlock, tlock, pc, call, mem, pbal, ptxn,
                 pled, res, delta, expected, ncalls>>

\* The queryset of reconcile_daily_transactions(); every modelled transaction
\* is created on the date asked for.
Unreconciled(p) ==
  LET rows == RowsOf(p)
  IN {t \in DOMAIN rows : rows[t].status = COMPLETED /\ ~rows[t].is_reconciled}

BeginBatch(p) ==
  /\ pc[p] = "idle" /\ ncalls < MaxCalls
  /\ call' = [call EXCEPT ![p] = [NoCall EXCEPT !.op = "reconcile_daily"]]
  /\ mem' = [mem EXCEPT ![p] = NoMem]
  /\ pc' = [pc EXCEPT ![p] = "call"]
  /\ res' = [res EXCEPT ![p] = NoRes]
  /\ ncalls' = ncalls + 1
  /\ UNCHANGED <<wallets, txns, ledger, rules, wlock, tlock, pbal, ptxn, pled,
                 delta, expected>>

\* A step of reconcile_daily_transactions() that only changes its running result.
BatchStep(p, label, b) ==
  /\ pc' = [pc EXCEPT ![p] = label]
  /\ mem' = [mem EXCEPT ![p].batch = b]
  /\ UNCHANGED <<wallets, txns, ledger, rules, wlock, call, pbal, pled, res, delta,
                 expected, ncalls>>

\* results['total'] = transactions.count(): a query of its own.
BatchCount(p) ==
  /\ pc[p] = "call" /\ call[p].op = "reconcile_daily"
  /\ BatchStep(p, "fetch", [NoBatch EXCEPT !.total = Cardinality(Unreconciled(p))])
  /\ UNCHANGED <<tlock, ptxn>>

\* for txn in transactions: the queryset is evaluated when the loop starts.
BatchFetch(p) ==
  /\ pc[p] = "fetch"
  /\ BatchStep(p, "loop", [mem[p].batch EXCEPT !.todo = Unreconciled(p)])
  /\ UNCHANGED <<tlock, ptxn>>

\* One turn of the loop: reconcile_transaction(txn, reconciled_by) on the
\* fetched instance, which is COMPLETED and not reconciled; newest first.
BatchItem(p) ==
  /\ pc[p] = "loop" /\ mem[p].batch.todo # {}
  /\ LET b == mem[p].batch
         t == CHOOSE x \in b.todo : \A y \in b.todo : y <= x
     IN IF verify_transaction(p, t)
        THEN /\ tlock[t] \in {NoProc, p}
             /\ tlock' = [tlock EXCEPT ![t] = p]
             /\ ptxn' = [ptxn EXCEPT ![p] =
                           (t :> [RowsOf(p)[t] EXCEPT !.is_reconciled = TRUE]) @@ ptxn[p]]
             /\ BatchStep(p, "loop", [b EXCEPT !.todo = @ \ {t},
                                               !.reconciled = @ + 1])
        ELSE /\ BatchStep(p, "loop", [b EXCEPT !.todo = @ \ {t}, !.failed = @ + 1,
                                               !.errors = Append(@, t)])
             /\ UNCHANGED <<tlock, ptxn>>

\* The loop is over: the results are returned and the marks committed.
BatchReturn(p) ==
  /\ pc[p] = "loop" /\ mem[p].batch.todo = {}
  /\ CommitWith(p, EmptyFn, ptxn[p], <<>>, ZeroDelta)

\* --------------------------------------------------- FraudDetectionService
\* Transactions of the sender counted by the velocity checks; every modelled
\* transaction is created inside the time window.
RecentIds(p, row) ==
  LET rows == RowsOf(p)
  IN {i \in DOMAIN rows : /\ rows[i].sender_wallet = row.sender_wallet
                          /\ rows[i].status \in {COMPLETED, PROCESSING}}

check_rule(p, row, rule) ==
  IF rule.rule_type = "AMOUNT_THRESHOLD"
  THEN rule.threshold_value # 0 /\ row.amount >= rule.threshold_value
  ELSE IF rule.rule_type = "VELOCITY"
  THEN /\ rule.time_window_minutes # 0 /\ rule.max_occurrences # 0
       /\ Cardinality(RecentIds(p, row)) >= rule.max_occurrences
  ELSE FALSE

RECURSIVE SumScore(_)
SumScore(rs) ==
  IF rs = {} THEN 0
  ELSE LET r == CHOOSE x \in rs : TRUE IN r.fraud_score + SumScore(rs \ {r})

Triggered(p, row) == {rule \in rules : check_rule(p, row, rule)}

\* No rule blocks by itself, in place of AutoBlocked.
NeverAutoBlocked(p, row) == FALSE

\* A triggered rule with auto_block cancels the transaction and raises.
AutoBlocked(p, row) == \E rule \in Triggered(p, row) : rule.auto_block

\* A velocity check that wants more than five transactions, in place of
\* check_velocity.
VelocityAboveFive(p, row) ==
  IF row.sender_wallet = NoWallet THEN 0
  ELSE LET ids == RecentIds(p, row)
       IN (IF Cardinality(ids) > 5 THEN 15 ELSE 0)
          + (IF SumAmount(RowsOf(p), ids) >= 1000000 THEN 20 ELSE 0)

check_velocity(p, row) ==
  IF row.sender_wallet = NoWallet THEN 0
  ELSE LET ids == RecentIds(p, row)
       IN (IF Cardinality(ids) >= 5 THEN 15 ELSE 0)
          + (IF SumAmount(RowsOf(p), ids) >= 1000000 THEN 20 ELSE 0)

check_patterns(p, row, rw) ==
  IF row.sender_wallet = NoWallet THEN 0
  ELSE LET rows == RowsOf(p)
           previous == {i \in DOMAIN rows : /\ rows[i].sender_wallet = row.sender_wallet
                                            /\ rows[i].status = COMPLETED}
       IN (IF previous = {} /\ row.amount >= 100000 THEN 10 ELSE 0)
          + (IF row.amount % 10000 = 0 THEN 5 ELSE 0)
          + (IF row.receiver_wallet # NoWallet /\ rw.is_new /\ row.amount >= 50000
             THEN 15 ELSE 0)

calculate_fraud_score(p, row, rw) ==
  SumScore(Triggered(p, row)) + check_velocity(p, row) + check_patterns(p, row, rw)

\* ------------------------------------------------------------ WalletService
\* A caller loads the wallets and later calls transfer(), deposit() or withdraw().
BeginService(p) ==
  /\ pc[p] = "idle" /\ ncalls < MaxCalls
  /\ \/ \E s \in W, r \in W, a \in Amounts :
          /\ call' = [call EXCEPT ![p] = [NoCall EXCEPT !.op = "transfer", !.s = s,
                                                        !.r = r, !.amt = a]]
          /\ mem' = [mem EXCEPT ![p] = [NoMem EXCEPT !.sw = LoadWallet(p, s),
                                                     !.rw = LoadWallet(p, r)]]
     \/ \E r \in W, a \in Amounts :
          /\ call' = [call EXCEPT ![p] = [NoCall EXCEPT !.op = "deposit", !.r = r,
                                                        !.amt = a]]
          /\ mem' = [mem EXCEPT ![p] = [NoMem EXCEPT !.rw = LoadWallet(p, r)]]
     \/ \E s \in W, a \in Amounts, f \in Fees :
          /\ call' = [call EXCEPT ![p] = [NoCall EXCEPT !.op = "withdraw", !.s = s,
                                                        !.amt = a, !.fee = f]]
          /\ mem' = [mem EXCEPT ![p] = [NoMem EXCEPT !.sw = LoadWallet(p, s)]]
  /\ pc' = [pc EXCEPT ![p] = "call"]
  /\ res' = [res EXCEPT ![p] = NoRes]
  /\ ncalls' = ncalls + 1
  /\ UNCHANGED <<wallets, txns, ledger, rules, wlock, tlock, pbal, ptxn, pled,
                 delta, expected>>

ServiceType(op) ==
  IF op = "transfer" THEN TRANSFER ELSE IF op = "deposit" THEN DEPOSIT ELSE WITHDRAWAL

\* transfer() / deposit() / withdraw(): create the transaction, for a transfer
\* evaluate it for fraud, and start execute() on it.
ServiceStart(p) ==
  /\ pc[p] = "call" /\ call[p].op \in {"transfer", "deposit", "withdraw"}
  /\ TxnIds \ UsedIds # {}
  /\ LET id == FreshId
         c == call[p]
         row0 == NewRow(ServiceType(c.op), c.s, c.r, c.amt, c.fee, 0)
         score == IF c.op = "transfer" THEN calculate_fraud_score(p, row0, mem[p].rw)
                  ELSE 0
         row1 == [row0 EXCEPT !.fraud_score = score,
                              !.is_flagged = @ \/ score >= 30,
                              !.status = PROCESSING]
         chk == DispatchCheck(p, row1, mem[p].sw, mem[p].rw)
     IN IF c.op = "transfer" /\ AutoBlocked(p, row0)
        THEN /\ pc' = [pc EXCEPT ![p] = "blocked"]
             /\ call' = [call EXCEPT ![p].t = id, ![p].cur = id]
             /\ ptxn' = [ptxn EXCEPT ![p] = (id :> [row0 EXCEPT !.status = CANCELLED])
                                             @@ ptxn[p]]
             /\ UNCHANGED <<wallets, txns, ledger, rules, wlock, tlock, mem, pbal,
                            pled, res, delta, expected, ncalls>>
        ELSE IF score >= 50
        THEN AbortWith(p, FraudDetectedException, "high fraud score")
        ELSE IF chk # "ok"
        THEN AbortWith(p, TransactionException, chk)
        ELSE /\ pc' = [pc EXCEPT ![p] = IF HasDebit(row1) THEN "debit" ELSE "credit"]
             /\ call' = [call EXCEPT ![p].t = id, ![p].cur = id]
             /\ ptxn' = [ptxn EXCEPT ![p] = (id :> row1) @@ ptxn[p]]
             /\ UNCHANGED <<wallets, txns, ledger, rules, wlock, tlock, mem, pbal,
                            pled, res, delta, expected, ncalls>>

\* calculate_fraud_score() raises after the cancel(); evaluate_transaction()
\* answers False and transfer() raises FraudDetectedException out of its
\* atomic block.
FraudRaise(p) ==
  /\ pc[p] = "blocked"
  /\ AbortWith(p, FraudDetectedException, "auto-block")

Next ==
  \/ \E p \in Callers : BeginWalletOp(p) \/ WalletCredit(p) \/ WalletDebit(p)
  \/ \E w \in W : lock(w) \/ unlock(w) \/ soft_delete(w) \/ restore(w)
  \/ \E p \in Callers : CreateTxn(p) \/ BeginTxnOp(p) \/ ExecStart(p) \/ StepDebit(p) \/ StepCredit(p)
  \/ \E p \in Callers : Cancel(p) \/ ReverseStart(p) \/ ReverseMark(p)
  \/ \E p \in Callers : BeginService(p) \/ ServiceStart(p)
  \/ \E p \in Callers : Reconcile(p)

Spec == Init /\ [][Next]_vars

\* ------------------------------------------------------- the transfer race
\* Every caller makes one transfer of RaceAmount from A to B; A is funded for
\* all of them but one.
RaceAmount == CHOOSE a \in Amounts : TRUE
RaceFunded == Cardinality(Procs) - 1

RaceInit == InitWith([w \in W |-> IF w = "A" THEN RaceFunded * RaceAmount ELSE 0])

RaceBegin(p) ==
  /\ pc[p] = "idle" /\ res[p] = NoRes
  /\ call' = [call EXCEPT ![p] = [NoCall EXCEPT !.op = "transfer", !.s = "A",
                                                !.r = "B", !.amt = RaceAmount]]
  /\ mem' = [mem EXCEPT ![p] = [NoMem EXCEPT !.sw = LoadWallet(p, "A"),
                                             !.rw = LoadWallet(p, "B")]]
  /\ pc' = [pc EXCEPT ![p] = "call"]
  /\ ncalls' = ncalls + 1
  /\ UNCHANGED <<wallets, txns, ledger, rules, wlock, tlock, pbal, ptxn, pled,
                 res, delta, expected>>

RaceNext ==
  \E p \in Procs : RaceBegin(p) \/ ServiceStart(p) \/ StepDebit(p) \/ StepCredit(p)

SpecRace == RaceInit /\ [][RaceNext]_vars

\* ---------------------------------------------- transfers in both directions
\* The caller whose row lock caller p's next step is waiting for, if any.
WaitsFor(p) ==
  LET holder(lk, x) == IF lk[x] \in {NoProc, p} THEN NoProc ELSE lk[x]
  IN IF pc[p] = "debit"
     THEN LET row == ptxn[p][call[p].cur]
          IN IF WalletOpCheck(mem[p].sw, DebitAmount(row)) = "ok"
             THEN holder(wlock, row.sender_wallet) ELSE NoProc
     ELSE IF pc[p] = "credit"
     THEN LET row == ptxn[p][call[p].cur]
          IN IF WalletOpCheck(mem[p].rw, CreditAmount(row)) = "ok"
             THEN holder(wlock, row.receiver_wallet) ELSE NoProc
     ELSE IF pc[p] = "mark" THEN holder(tlock, call[p].t)
     ELSE IF pc[p] = "call" /\ call[p].op \in {"credit", "debit"}
     THEN IF WalletOpCheck(mem[p].sw, call[p].amt) = "ok"
          THEN holder(wlock, call[p].s) ELSE NoProc
     ELSE IF pc[p] = "call" /\ call[p].op = "execute" /\ mem[p].status = PENDING
     THEN holder(tlock, call[p].t)
     ELSE IF pc[p] = "call" /\ call[p].op = "cancel" /\ CancelAllowed(mem[p].status)
     THEN holder(tlock, call[p].t)
     ELSE NoProc

\* Two callers wait for each other's row lock: select_for_update() has no
\* timeout of its own, the database ends the wait of one of them with an error.
DeadlockAbort(p) ==
  /\ WaitsFor(p) # NoProc
  /\ WaitsFor(WaitsFor(p)) = p
  /\ AbortWith(p, OperationalError, "deadlock detected")

\* Both wallets are funded, so that transfers can run in both directions.
OpposedInit == InitWith([w \in W |-> CHOOSE a \in Amounts : TRUE])

OpposedNext == Next \/ \E p \in Callers : DeadlockAbort(p)

SpecOpposed == OpposedInit /\ [][OpposedNext]_vars

\* ------------------------------------------------------ a low daily limit
\* Wallet A may send LowDailyLimit a day and holds three times as much.
LowDailyLimit == 1000

LimitInit ==
  InitFrom([w \in W |-> IF w = "A" THEN 3 * LowDailyLimit ELSE 0], {},
           [w \in W |-> IF w = "A" THEN LowDailyLimit ELSE DefaultDailyLimit])

SpecLimit == LimitInit /\ [][Next]_vars

\* ------------------------------------------------- configured fraud rules
\* One active AMOUNT_THRESHOLD rule that every modelled amount triggers: it
\* scores below the flagging threshold, at it, at the blocking threshold,
\* blocks by itself, or takes points off (fraud_score is a plain integer).
RuleOf(name, score, block) ==
  [name |-> name, rule_type |-> "AMOUNT_THRESHOLD", threshold_value |-> 1000,
   time_window_minutes |-> 0, max_occurrences |-> 0, fraud_score |-> score,
   auto_block |-> block]

RuleSets ==
  {{RuleOf("low", 10, FALSE)}, {RuleOf("medium", 30, FALSE)},
   {RuleOf("high", 50, FALSE)}, {RuleOf("block", 20, TRUE)},
   {RuleOf("trusted", -10, FALSE)}}

FraudInit ==
  \E rs \in RuleSets : InitFrom(InitBalance, rs, [w \in W |-> DefaultDailyLimit])

FraudNext ==
  \E p \in Callers : \/ BeginService(p) \/ ServiceStart(p) \/ FraudRaise(p)
                      \/ StepDebit(p) \/ StepCredit(p)

SpecFraud == FraudInit /\ [][FraudNext]_vars

\* ------------------------------------------------------- reconciliation
\* The stored state after deposit(A, x) and transfer(A, B, x), both wallets
\* having held x before.
StoredAmount == CHOOSE a \in Amounts : TRUE

ReconInit ==
  LET x == StoredAmount
      bal == [w \in W |-> IF w = "A" THEN x ELSE x + x]
      dep == [NewRow(DEPOSIT, NoWallet, "A", x, 0, 0) EXCEPT !.status = COMPLETED]
      tra == [NewRow(TRANSFER, "A", "B", x, 0, 0) EXCEPT !.status = COMPLETED]
      obj == [w \in W |-> [NoObj EXCEPT !.balance = bal[w]]]
  IN /\ wallets = [w \in W |-> [balance |-> bal[w], is_active |-> TRUE,
                                is_locked |-> FALSE,
                                daily_limit |-> DefaultDailyLimit,
                                monthly_limit |-> DefaultMonthlyLimit,
                                is_new |-> FALSE]]
     /\ txns = (1 :> dep) @@ (2 :> tra)
     /\ ledger = LedgerEntries(1, dep, NoObj, [NoObj EXCEPT !.balance = x + x])
                  \o LedgerEntries(2, tra, obj["A"], obj["B"])
     /\ rules = {}
     /\ wlock = [w \in W |-> NoProc]
     /\ tlock = [t \in TxnIds |-> NoProc]
     /\ pc = [p \in Procs |-> "idle"]
     /\ call = [p \in Procs |-> NoCall]
     /\ mem = [p \in Procs |-> NoMem]
     /\ pbal = [p \in Procs |-> EmptyFn]
     /\ ptxn = [p \in Procs |-> EmptyFn]
     /\ pled = [p \in Procs |-> <<>>]
     /\ res = [p \in Procs |-> NoRes]
     /\ delta = [p \in Procs |-> ZeroDelta]
     /\ expected = bal
     /\ ncalls = 0

ReconNext ==
  \/ Next
  \/ \E t \in TxnIds : reconcile(t)
  \/ \E p \in Callers : BeginBatch(p) \/ BatchCount(p) \/ BatchFetch(p)
                        \/ BatchItem(p) \/ BatchReturn(p)

SpecRecon == ReconInit /\ [][ReconNext]_vars

\* ------------------------------------------------- transfers in a row
\* Transfers of one amount out of A, as many as there are transaction ids; A
\* is funded for all of them and no fraud rule is configured.
VelocityAmount == CHOOSE a \in Amounts : TRUE

VelocityInit ==
  InitWith([w \in W |-> IF w = "A" THEN MaxTxn * VelocityAmount ELSE 0])

VelocityBegin(p) ==
  /\ pc[p] = "idle" /\ ncalls < MaxTxn
  /\ call' = [call EXCEPT ![p] = [NoCall EXCEPT !.op = "transfer", !.s = "A",
                                                !.r = "B", !.amt = VelocityAmount]]
  /\ mem' = [mem EXCEPT ![p] = [NoMem EXCEPT !.sw = LoadWallet(p, "A"),
                                             !.rw = LoadWallet(p, "B")]]
  /\ pc' = [pc EXCEPT ![p] = "call"]
  /\ res' = [res EXCEPT ![p] = NoRes]
  /\ ncalls' = ncalls + 1
  /\ UNCHANGED <<wallets, txns, ledger, rules, wlock, tlock, pbal, ptxn, pled,
                 delta, expected>>

VelocityNext ==
  \E p \in Callers : VelocityBegin(p) \/ ServiceStart(p) \/ StepDebit(p) \/ StepCredit(p)

SpecVelocity == VelocityInit /\ [][VelocityNext]_vars

\* ================================================================ claims

\* C1: in every reachable state the stored balance of every wallet, and every
\* balance a caller has written but not yet committed, is >= 0.
BalanceNonNegative ==
  /\ \A w \in W : wallets[w].balance >= 0
  /\ \A p \in Procs : \A w \in DOMAIN pbal[p] : pbal[p][w] >= 0

\* C1 witness: a debit was refused for insufficient funds on a wallet that
\* other debits had emptied.
DebitRefusedOnEmptyWallet ==
  \E p \in Procs : /\ res[p].outcome = InsufficientFundsException
                   /\ wallets["A"].balance = 0

\* C3: when the race is over exactly RaceFunded transfers succeeded, every
\* other one failed with InsufficientFunds, and the sender's balance is 0.
RaceOver == \A p \in Procs : pc[p] = "idle" /\ res[p].outcome # "none"

RaceOutcome ==
  RaceOver =>
    /\ Cardinality({p \in Procs : res[p].outcome = "ok"}) = RaceFunded
    /\ \A p \in Procs : res[p].outcome \in {"ok", InsufficientFundsException}
    /\ wallets["A"].balance = 0

\* C4: no update is lost: every wallet's stored balance is its initial balance
\* plus the credits that succeeded minus the debits that succeeded.
NoLostUpdate == \A w \in W : wallets[w].balance = expected[w]

\* C4 witness: two credits on the same wallet have both been committed.
TwoCreditsCommitted ==
  /\ wallets["B"].balance = InitBalance["B"] + 2 * RaceAmount
  /\ \A p \in Callers : res[p].outcome = "ok"

\* C2: when a wallet call of execute() fails after the sender was debited, the
\* call leaves the stored balances of sender and receiver as they were: the
\* sender's is again the balance the debit had read.
ExecuteAllOrNothing ==
  [][\A p \in Procs :
       (/\ pc[p] = "credit"
        /\ HasDebit(ptxn[p][call[p].cur])
        /\ pc'[p] = "idle" /\ res'[p].outcome # "ok")
       => LET row == ptxn[p][call[p].cur]
              s == row.sender_wallet
              r == row.receiver_wallet
          IN /\ wallets'[s].balance = pbal[p][s] + DebitAmount(row)
             /\ wallets'[s].balance = wallets[s].balance
             /\ wallets'[r].balance = wallets[r].balance
             /\ expected' = expected]_vars

\* C2 witness: an execute() of a two-wallet transaction failed at the receiver
\* credit, after its sender debit.
CreditFailedAfterDebit ==
  \E p \in Procs :
    /\ res[p].at = "credit" /\ res[p].outcome = TransactionException
    /\ res[p].t \in DOMAIN txns
    /\ txns[res[p].t].transaction_type \in {TRANSFER, SPONSORSHIP, PAYMENT, REFUND}

LedgerOf(l, t) == SelectSeq(l, LAMBDA e : e.transaction = t)

EntriesOn(l, t, w, type) ==
  SelectSeq(l, LAMBDA e : e.transaction = t /\ e.wallet = w /\ e.entry_type = type)

\* C5: the step that ends a successful transfer(s, r, x) takes exactly x from
\* s's stored balance, adds exactly x to r's, stores the transaction COMPLETED
\* and appends for it one DEBIT of x on s and one CREDIT of x on r, nothing else.
TransferEffect ==
  [][\A p \in Procs :
       (call[p].op = "transfer" /\ pc[p] = "credit" /\ res'[p].outcome = "ok")
       => LET s == call[p].s
              r == call[p].r
              x == call[p].amt
              t == call[p].t
          IN /\ wallets'[s].balance = wallets[s].balance - x
             /\ wallets'[r].balance = wallets[r].balance + x
             /\ t \in DOMAIN txns' /\ txns'[t].status = COMPLETED
             /\ Len(LedgerOf(ledger', t)) = 2
             /\ Len(EntriesOn(ledger', t, s, "DEBIT")) = 1
             /\ EntriesOn(ledger', t, s, "DEBIT")[1].amount = x
             /\ Len(EntriesOn(ledger', t, r, "CREDIT")) = 1
             /\ EntriesOn(ledger', t, r, "CREDIT")[1].amount = x]_vars

\* C5 witness: a transfer has succeeded.
TransferSucceeded ==
  \E p \in Procs :
    /\ res[p].outcome = "ok" /\ res[p].t \in DOMAIN txns
    /\ txns[res[p].t].transaction_type = TRANSFER
    /\ Len(LedgerOf(ledger, res[p].t)) > 0

AllowedStatusChanges ==
  {<<PENDING, PROCESSING>>, <<PROCESSING, COMPLETED>>, <<PROCESSING, FAILED>>,
   <<COMPLETED, REVERSED>>, <<PENDING, CANCELLED>>, <<PROCESSING, CANCELLED>>}

ThenAllowed(R) ==
  R \cup {<<x[1][1], x[2][2]>> : x \in {y \in R \X AllowedStatusChanges : y[1][2] = y[2][1]}}

\* C6: every change of a transaction's stored status is an allowed transition,
\* or a chain of allowed transitions made inside one unit of work; FAILED,
\* CANCELLED and REVERSED are never left.
StatusClosure ==
  [][\A t \in DOMAIN txns :
       /\ t \in DOMAIN txns'
       /\ txns'[t].status # txns[t].status
            => <<txns[t].status, txns'[t].status>>
                 \in ThenAllowed(ThenAllowed(AllowedStatusChanges))]_vars

\* C7: when execute() fails after its status check, the error is re-raised and
\* the transaction is stored FAILED with the failure reason.
ExecuteFailureRecorded ==
  [][\A p \in Procs :
       (/\ call[p].op = "execute" /\ pc[p] \in {"call", "debit", "credit"}
        /\ pc'[p] = "idle" /\ res'[p].outcome # "ok"
        /\ res'[p].reason # "not pending")
       => /\ res'[p].outcome \in {TransactionException, InsufficientFundsException}
          /\ txns'[call[p].t].status = FAILED
          /\ txns'[call[p].t].failure_reason # ""]_vars

\* C8: every COMPLETED transaction has a DEBIT ledger entry on its sender
\* wallet and a CREDIT ledger entry on its receiver wallet.
CompletedIsInLedger ==
  \A t \in DOMAIN txns :
    txns[t].status = COMPLETED =>
      /\ txns[t].sender_wallet # NoWallet
           => Len(EntriesOn(ledger, t, txns[t].sender_wallet, "DEBIT")) > 0
      /\ txns[t].receiver_wallet # NoWallet
           => Len(EntriesOn(ledger, t, txns[t].receiver_wallet, "CREDIT")) > 0

RECURSIVE SignedSum(_)
SignedSum(l) ==
  IF l = <<>> THEN 0
  ELSE (IF Head(l).entry_type = "CREDIT" THEN Head(l).amount ELSE 0 - Head(l).amount)
       + SignedSum(Tail(l))

\* C9: for every COMPLETED TRANSFER the amounts of its ledger entries, CREDIT
\* counted positive and DEBIT negative, sum to 0.
LedgerZeroSum ==
  \A t \in DOMAIN txns :
    (txns[t].transaction_type = TRANSFER /\ txns[t].status = COMPLETED)
      => SignedSum(LedgerOf(ledger, t)) = 0

\* C9 witness: a COMPLETED TRANSFER with its two ledger entries.
CompletedTransferInLedger ==
  \E t \in DOMAIN txns :
    /\ txns[t].transaction_type = TRANSFER /\ txns[t].status = COMPLETED
    /\ Len(LedgerOf(ledger, t)) = 2

\* C10: while a wallet is stored locked or inactive its stored balance does
\* not change: every debit and credit on it fails.
LockedWalletFrozen ==
  [][\A w \in W :
       (wallets[w].is_locked \/ ~wallets[w].is_active)
         => wallets'[w].balance = wallets[w].balance]_vars

\* What a wallet has sent: the amounts of its stored COMPLETED outgoing
\* transactions (all of the current day and month).
SentBy(w) ==
  SumAmount(txns, {t \in DOMAIN txns :
                     txns[t].sender_wallet = w /\ txns[t].status = COMPLETED})

\* C11: in every reachable state, what each wallet has sent in COMPLETED
\* transactions of the day is at most its daily limit and of the month at most
\* its monthly limit.
SentWithinLimits ==
  \A w \in W : /\ SentBy(w) <= wallets[w].daily_limit
               /\ SentBy(w) <= wallets[w].monthly_limit

\* The transaction transfer() creates for the call caller p is making.
TransferRow(p) == NewRow(TRANSFER, call[p].s, call[p].r, call[p].amt, call[p].fee, 0)

\* Caller p is at the fraud evaluation of a transfer() whose score is at the
\* blocking threshold, with no auto-block rule triggered.
ScoreBlocks(p) ==
  /\ call[p].op = "transfer" /\ pc[p] = "call"
  /\ ~AutoBlocked(p, TransferRow(p))
  /\ calculate_fraud_score(p, TransferRow(p), mem[p].rw) >= 50

\* C12: a transfer() whose fraud score is >= 50 ends with FraudDetected, moves
\* no balance, writes no ledger entry, never starts execute(), and leaves its
\* transaction stored and flagged for review.
BlockedTransferIsFlagged ==
  [][\A p \in Procs :
       (ScoreBlocks(p) /\ pc'[p] # pc[p])
       => /\ pc'[p] = "idle" /\ res'[p].outcome = FraudDetectedException
          /\ wallets' = wallets /\ ledger' = ledger
          /\ \E t \in DOMAIN txns' \ DOMAIN txns :
               /\ txns'[t].is_flagged
               /\ txns'[t].status \notin {PROCESSING, COMPLETED}]_vars

\* C13: after transfer() is refused with FraudDetected, by an auto-block rule
\* or by a score >= 50, its transaction is stored with status CANCELLED or
\* FAILED.
BlockedTransferIsTerminal ==
  [][\A p \in Procs :
       (/\ call[p].op = "transfer" /\ pc[p] \in {"call", "blocked"}
        /\ pc'[p] = "idle"
        /\ res'[p].outcome = FraudDetectedException)
       => \E t \in DOMAIN txns' \ DOMAIN txns :
            txns'[t].status \in {CANCELLED, FAILED}]_vars

\* C14: the step that ends a successful reverse() of a stored COMPLETED
\* TRANSFER of x from A to B stores exactly one new transaction, a COMPLETED
\* REFUND of x with fee 0 from B to A that points back at the original, stores
\* the original REVERSED and otherwise unchanged, and gives x back: A's stored
\* balance grows by x and B's shrinks by x.
ReversalRoundTrip ==
  [][\A p \in Procs :
       (/\ call[p].op = "reverse" /\ pc[p] = "mark" /\ res'[p].outcome = "ok"
        /\ txns[call[p].t].transaction_type = TRANSFER
        /\ txns[call[p].t].status = COMPLETED)
       => LET t == call[p].t
              o == txns[t]
              new == DOMAIN txns' \ DOMAIN txns
          IN /\ Cardinality(new) = 1
             /\ \A n \in new :
                  /\ txns'[n].transaction_type = REFUND
                  /\ txns'[n].status = COMPLETED
                  /\ txns'[n].sender_wallet = o.receiver_wallet
                  /\ txns'[n].receiver_wallet = o.sender_wallet
                  /\ txns'[n].amount = o.amount /\ txns'[n].fee = 0
                  /\ txns'[n].original = t
             /\ txns'[t] = [o EXCEPT !.status = REVERSED]
             /\ wallets'[o.sender_wallet].balance
                  = wallets[o.sender_wallet].balance + o.amount
             /\ wallets'[o.receiver_wallet].balance
                  = wallets[o.receiver_wallet].balance - o.amount]_vars

\* C14 witness: a TRANSFER is stored REVERSED next to its COMPLETED REFUND.
TransferReversed ==
  \E t \in DOMAIN txns, n \in DOMAIN txns :
    /\ txns[t].transaction_type = TRANSFER /\ txns[t].status = REVERSED
    /\ txns[n].transaction_type = REFUND /\ txns[n].original = t
    /\ txns[n].status = COMPLETED

\* C15: a transaction stored CANCELLED has moved no money: cancel() is never
\* accepted for a transaction whose execute() has committed its balance
\* changes (stored COMPLETED or REVERSED), and the accepted cancel() changes
\* no balance.
CancelledMovedNoMoney ==
  [][\A p \in Procs :
       (call[p].op = "cancel" /\ pc[p] = "call" /\ res'[p].outcome = "ok")
       => /\ txns[call[p].t].status \notin {COMPLETED, REVERSED}
          /\ \A w \in W : wallets'[w].balance = wallets[w].balance]_vars

NotCompleted == {PENDING, PROCESSING, FAILED, CANCELLED}

\* C16: reconcile_transaction() on a transaction that is not COMPLETED, in the
\* instance it is given or in stored state, returns false without raising and
\* stores nothing; for the instance it is the status check that refuses.
ReconcileRefused ==
  [][\A p \in Procs :
       (call[p].op = "reconcile" /\ pc[p] = "call" /\ pc'[p] = "idle")
       => /\ mem[p].status \in NotCompleted
               => /\ res'[p].outcome = "false" /\ res'[p].reason = "not completed"
                  /\ txns' = txns
          /\ txns[call[p].t].status \in NotCompleted
               => res'[p].outcome = "false" /\ txns' = txns]_vars

\* C16 witness: reconcile_transaction() has refused a transaction that is
\* stored non-COMPLETED and still not reconciled.
ReconcileRefusedPending ==
  \E p \in Procs :
    /\ res[p].outcome = "false" /\ res[p].reason = "not completed"
    /\ res[p].t \in DOMAIN txns
    /\ txns[res[p].t].status \in NotCompleted
    /\ ~txns[res[p].t].is_reconciled

\* C17: reconcile_transaction() on a COMPLETED, not yet reconciled TRANSFER
\* whose ledger holds one DEBIT and one CREDIT that offset each other returns
\* true and stores the transaction reconciled.
ReconcileOfTransferPasses ==
  [][\A p \in Procs :
       (/\ call[p].op = "reconcile" /\ pc[p] = "call" /\ pc'[p] = "idle"
        /\ mem[p].status = COMPLETED /\ ~mem[p].is_reconciled
        /\ txns[call[p].t].transaction_type = TRANSFER
        /\ txns[call[p].t].status = COMPLETED
        /\ Len(LedgerOf(ledger, call[p].t)) = 2
        /\ Len(EntriesOn(ledger, call[p].t, txns[call[p].t].sender_wallet, "DEBIT")) = 1
        /\ Len(EntriesOn(ledger, call[p].t, txns[call[p].t].receiver_wallet, "CREDIT")) = 1
        /\ SignedSum(LedgerOf(ledger, call[p].t)) = 0)
       => /\ res'[p].outcome = "true"
          /\ txns'[call[p].t].is_reconciled]_vars

\* C18: execute() of a PAYMENT, HEALTHCARE_PAYMENT or PHARMACY_PAYMENT of
\* amount a and fee f fails at dispatch, changing no balance, when a wallet is
\* missing or the sender's can_send(a + f) is false, and goes on to the debit
\* otherwise; when it succeeds the sender's stored balance has gone down by
\* exactly a + f and the receiver's up by exactly a; when it fails no stored
\* balance has changed.
PaymentEffect ==
  [][\A p \in Procs :
       (/\ call[p].op = "execute" /\ pc[p] \in {"call", "debit", "credit"}
        /\ pc'[p] # pc[p]
        /\ txns[call[p].t].transaction_type \in PaymentTypes)
       => LET o == txns[call[p].t]
              s == o.sender_wallet
              r == o.receiver_wallet
              refused == \/ s = NoWallet \/ r = NoWallet
                         \/ ~can_send(p, s, LoadWallet(p, s), o.amount + o.fee)
          IN /\ (pc[p] = "call" /\ mem[p].status = PENDING)
                  => IF refused
                     THEN pc'[p] = "idle" /\ res'[p].outcome = TransactionException
                     ELSE pc'[p] = "debit"
             /\ (pc'[p] = "idle" /\ res'[p].outcome = "ok")
                  => /\ wallets'[s].balance = wallets[s].balance - (o.amount + o.fee)
                     /\ wallets'[r].balance = wallets[r].balance + o.amount
             /\ (pc'[p] # "idle" \/ res'[p].outcome # "ok")
                  => \A w \in W : wallets'[w].balance = wallets[w].balance]_vars

\* C18 witness: a payment with a fee is stored COMPLETED.
PaymentCompleted ==
  \E t \in DOMAIN txns :
    /\ txns[t].transaction_type \in PaymentTypes /\ txns[t].status = COMPLETED
    /\ txns[t].fee > 0

\* C19: an execute() that has to wait for a row lock it cannot get does not
\* block and does not fail in any other way: it ends with TransactionException
\* and its transaction stored FAILED.
BlockedExecuteFails ==
  [][\A p \in Procs :
       (call[p].op = "execute" /\ WaitsFor(p) # NoProc /\ pc'[p] # pc[p])
       => /\ pc'[p] = "idle"
          /\ res'[p].outcome = TransactionException
          /\ txns'[call[p].t].status = FAILED]_vars

\* C20: a transaction moves money at most once: no execute() succeeds on a
\* transaction whose earlier execute() has already committed (stored COMPLETED
\* or REVERSED), also when both callers loaded it while it was PENDING.
ExecutedAtMostOnce ==
  [][\A p \in Procs :
       (/\ call[p].op = "execute" /\ pc[p] \in {"debit", "credit"}
        /\ pc'[p] = "idle" /\ res'[p].outcome = "ok")
       => txns[call[p].t].status \notin {COMPLETED, REVERSED}]_vars

\* C21: when a transfer() for which a fraud score was computed ends, by
\* returning, by being blocked for a score >= 50 or by failing in execute(),
\* its transaction is stored and carries the computed score.
ScoreStored ==
  [][\A p \in Procs :
       (/\ call[p].op = "transfer" /\ pc[p] \in {"call", "debit", "credit"}
        /\ pc'[p] = "idle"
        /\ ~(\E rule \in rules : rule.auto_block /\ check_rule(p, TransferRow(p), rule)))
       => \E t \in DOMAIN txns' \ DOMAIN txns :
            txns'[t].fraud_score =
              IF pc[p] = "call"
              THEN calculate_fraud_score(p, TransferRow(p), mem[p].rw)
              ELSE ptxn[p][call[p].cur].fraud_score]_vars

\* C22: the scoring step of a transfer() that triggers an active auto-block
\* rule leaves the new transaction CANCELLED with no score and no balance
\* touched; the call then ends with FraudDetected without any debit or credit.
AutoBlockCancels ==
  [][\A p \in Procs :
       /\ (/\ call[p].op = "transfer" /\ pc[p] = "call" /\ pc'[p] # pc[p]
           /\ \E rule \in rules : rule.auto_block /\ check_rule(p, TransferRow(p), rule))
          => /\ pc'[p] = "blocked"
             /\ ptxn'[p][call'[p].cur].status = CANCELLED
             /\ ptxn'[p][call'[p].cur].fraud_score = 0
             /\ wallets' = wallets /\ pbal' = pbal /\ ledger' = ledger /\ pled' = pled
       /\ (pc[p] = "blocked" /\ pc'[p] # pc[p])
          => /\ pc'[p] = "idle" /\ res'[p].outcome = FraudDetectedException
             /\ pbal[p] = EmptyFn /\ pled[p] = <<>>
             /\ wallets' = wallets /\ ledger' = ledger
             /\ \A t \in DOMAIN txns' \ DOMAIN txns :
                  txns'[t].status \notin {PROCESSING, COMPLETED}]_vars

\* A transfer() has been ended by an auto-block rule.
AutoBlockedTransferEnded ==
  \E p \in Procs : res[p].outcome = FraudDetectedException /\ res[p].at = "blocked"

\* C23: reconcile_transaction() on an instance that is already reconciled,
\* whether it is still COMPLETED or has been REVERSED since, returns true and
\* writes nothing.
ReconcileAgainIsNoOp ==
  [][\A p \in Procs :
       (/\ call[p].op = "reconcile" /\ pc[p] = "call" /\ pc'[p] = "idle"
        /\ mem[p].is_reconciled /\ mem[p].status \in {COMPLETED, REVERSED})
       => res'[p].outcome = "true" /\ txns' = txns]_vars

\* C24: when reconcile_daily_transactions() returns, reconciled + failed =
\* total, there is one error record per failed transaction, and every
\* transaction it counted as reconciled is stored reconciled.
BatchCountsAddUp ==
  [][\A p \in Procs :
       (call[p].op = "reconcile_daily" /\ pc[p] = "loop" /\ pc'[p] = "idle")
       => LET b == mem[p].batch
          IN /\ b.reconciled + b.failed = b.total
             /\ Len(b.errors) = b.failed
             /\ Cardinality({t \in DOMAIN ptxn[p] : txns'[t].is_reconciled})
                  = b.reconciled]_vars

\* C25: every step leaves the committed ledger entries as they were, in their
\* order, and at most adds entries after them.
LedgerAppendOnly ==
  [][/\ Len(ledger') >= Len(ledger)
     /\ SubSeq(ledger', 1, Len(ledger)) = ledger]_vars

\* Entries of two transactions are in the ledger, and a later call has ended.
LedgerGrewTwice ==
  /\ \E i, j \in DOMAIN ledger : ledger[i].transaction # ledger[j].transaction
  /\ \E p \in Procs : res[p].outcome = "ok" /\ res[p].t = ledger[Len(ledger)].transaction

\* C26: every ledger entry a step commits is a snapshot of that step: a DEBIT
\* carries amount + fee and balance_after = balance_before - (amount + fee), a
\* CREDIT carries amount and balance_after = balance_before + amount, and
\* balance_before / balance_after are the wallet's stored balance before /
\* after the step.
LedgerSnapshot ==
  [][\A i \in DOMAIN ledger' \ DOMAIN ledger :
       LET e == ledger'[i]
           row == txns'[e.transaction]
       IN /\ e.entry_type = "DEBIT"
             => /\ e.wallet = row.sender_wallet
                /\ e.amount = row.amount + row.fee
                /\ e.balance_after = e.balance_before - e.amount
          /\ e.entry_type = "CREDIT"
             => /\ e.wallet = row.receiver_wallet
                /\ e.amount = row.amount
                /\ e.balance_after = e.balance_before + e.amount
          /\ e.balance_before = wallets[e.wallet].balance
          /\ e.balance_after = wallets'[e.wallet].balance]_vars

\* A withdrawal with a fee and another transaction on the same wallet are both
\* in the ledger.
DebitAndCreditOnOneWallet ==
  \E i, j \in DOMAIN ledger :
    /\ ledger[i].wallet = ledger[j].wallet
    /\ ledger[i].transaction # ledger[j].transaction
    /\ ledger[j].entry_type = "DEBIT"
    /\ txns[ledger[j].transaction].fee > 0

FraudScoreInRange ==
  \A t \in DOMAIN txns : txns[t].fraud_score \in 0..100

\* The sum of the stored balances of all wallets.
RECURSIVE TotalOver(_, _)
TotalOver(ws, S) ==
  IF S = {} THEN 0
  ELSE LET w == CHOOSE x \in S : TRUE IN ws[w].balance + TotalOver(ws, S \ {w})

TotalBalance(ws) == TotalOver(ws, W)

\* What one execution of a transaction adds to the sum of the balances: a
\* deposit credits amount, a withdrawal debits amount + fee, a payment debits
\* amount + fee and credits amount, the other types debit what they credit.
NetEffect(row) ==
  IF row.transaction_type = DEPOSIT THEN row.amount
  ELSE IF row.transaction_type = WITHDRAWAL THEN 0 - (row.amount + row.fee)
  ELSE IF row.transaction_type \in PaymentTypes THEN 0 - row.fee
  ELSE 0

RECURSIVE SumEffect(_, _)
SumEffect(rows, S) ==
  IF S = {} THEN 0
  ELSE LET t == CHOOSE x \in S : TRUE IN NetEffect(rows[t]) + SumEffect(rows, S \ {t})

\* C29: the step that ends a call of transfer, deposit, withdraw, execute,
\* cancel, reverse or reconcile changes the sum of the stored balances by the
\* net effects of the transactions that become COMPLETED in it, and by
\* nothing else.
MoneyConserved ==
  [][\A p \in Procs :
       (pc[p] # "idle" /\ pc'[p] = "idle" /\ call[p].op \notin {"credit", "debit"})
       => LET done == {t \in DOMAIN txns' :
                         /\ txns'[t].status = COMPLETED
                         /\ (t \in DOMAIN txns => txns[t].status # COMPLETED)}
          IN TotalBalance(wallets') - TotalBalance(wallets) = SumEffect(txns', done)]_vars

\* C30: no stored transaction has more than one COMPLETED REFUND referring
\* to it.
ReversedAtMostOnce ==
  \A t \in DOMAIN txns :
    Cardinality({r \in DOMAIN txns : /\ txns[r].transaction_type = REFUND
                                     /\ txns[r].original = t
                                     /\ txns[r].status = COMPLETED}) <= 1
====
